---- MODULE Spec2Model ----
(***************************************************************************)
(* Diagram persistence and retention of kroki_editor.                      *)
(*                                                                         *)
(* The model follows hooks/useDiagramStorage (src/unnamed/part_000): the   *)
(* IndexedDB key-value store of SavedDiagram records, the retention pass   *)
(* cleanupDiagrams (age phase, then count phase, both pin-exempt) and the  *)
(* operations of the hook: saveDiagram, deleteDiagram, togglePin,          *)
(* renameDiagram and cleanupOldDiagrams.                                   *)
(*                                                                         *)
(* Under Spec every operation runs to completion in one step, at one       *)
(* reading of the clock; Tick is the passing of time between operations.   *)
(* Strings that the code inspects character by character (name, source)    *)
(* are sequences of one-character strings.                                 *)
(*                                                                         *)
(* SpecRead runs the read operations (loadDiagram, getAllDiagrams,         *)
(* getLastDiagram) on any small store, with get() and entries() that may   *)
(* reject; SpecDel runs the retention pass with a del() that may reject.   *)
(* SpecDebounce is hooks/useDebounce (src/src/hooks/useDebounce.ts) and    *)
(* SpecAutoSave is hooks/useAutoSave (src/unnamed/part_001), each with its *)
(* timeouts and a millisecond clock; SpecAutoSaveLive adds the fairness of *)
(* the clock and of the timeouts.  SpecToast runs the mutating operations  *)
(* with toast calls that may throw, SpecPage is the editor state and the   *)
(* session restore of app/page.tsx, and SpecRace runs cleanupDiagrams,     *)
(* togglePin, renameDiagram and deleteDiagram with their store calls       *)
(* interleaved.                                                            *)
(***************************************************************************)
EXTENDS Integers, Sequences, FiniteSets, TLC

VARIABLES
    store,  \* the idb-keyval store: a function from the ids present to records
    now,    \* Date.now()
    last,   \* outcome of the operation completed last (what its caller observed)
    mounted,         \* the component that calls the hook is mounted
    value,           \* the value the hook is rendered with
    debouncedValue,  \* useDebounce: the state the hook returns
    timer,           \* useDebounce: the handle the latest effect's cleanup holds
    timers,          \* the timeouts set and neither run nor cleared
    armed,           \* number of setTimeout calls so far (the next handle)
    saveTimeoutRef,  \* useAutoSave: saveTimeoutRef.current (0: undefined)
    toastIdRef,      \* useAutoSave: toastIdRef.current (0: undefined)
    inputs,          \* history: every value rendered, with the time
    emits,           \* history: every run of a timeout callback
    editor,          \* useDiagramEditor: source, diagramType, outputFormat, options
    effects,         \* the effects of the page that the last commit left to run
    reading,         \* restoreSession awaits getLastDiagram
    pass,            \* cleanupDiagrams calls in flight: position and locals
    writer,          \* togglePinInDb, renameDiagramInDb in flight: the same
    removed,         \* history: ids of the records a del() removed
    actual           \* history: number of records the passes removed

vars == <<store, now, last>>

\* The state of the timer hooks (useDebounce, useAutoSave).
hookVars ==
    <<mounted, value, debouncedValue, timer, timers, armed, saveTimeoutRef,
      toastIdRef, inputs, emits>>

\* The state of the page (useDiagramEditor and the session restore).
pageVars == <<editor, effects, reading>>

\* What the storage operations and the timer hooks leave alone.
\* The state of the storage calls that run interleaved.
raceVars == <<pass, writer, removed, actual>>

otherVars == <<pageVars, raceVars>>

allVars == <<vars, hookVars, otherVars>>

\* No hook is mounted: the storage operations are called directly.
NoHook ==
    /\ mounted = FALSE
    /\ value = "none"
    /\ debouncedValue = "none"
    /\ timer = 0
    /\ timers = {}
    /\ armed = 0
    /\ saveTimeoutRef = 0
    /\ toastIdRef = 0
    /\ inputs = <<>>
    /\ emits = <<>>

\* No page is rendered.
NoPage ==
    /\ editor = "none"
    /\ effects = {}
    /\ reading = FALSE

\* No storage call is in flight.
NoRace ==
    /\ pass = <<>>
    /\ writer = <<>>
    /\ removed = {}
    /\ actual = 0

NoOther == NoPage /\ NoRace

(***************************************************************************)
(* Bounds.  The source fixes MAX_DIAGRAMS = 50 and RETENTION_MS = 90 days  *)
(* (part_000, lines 20 and 26); the retention pass reads them only in      *)
(* comparisons, so the model keeps the two thresholds as parameters and    *)
(* checks them at small values.  The clock runs in milliseconds from 0 to  *)
(* MaxTime, long enough for a record to outlive the retention period, and  *)
(* saveDiagram is called while fewer than MaxRecords records are stored.   *)
(***************************************************************************)
MAX_DIAGRAMS == 1

RETENTION_MS == 1

MaxTime == RETENTION_MS + 2

MaxRecords == MAX_DIAGRAMS + 1

\* Values of Math.random().toString(36).substr(2, 9), in key order.
Rand == {0, 1}

Times == 0..MaxTime

\* diagram-<Date.now()>-<random suffix>
Ids == Times \X Rand

generateDiagramId(t, r) == <<t, r>>

\* Order of the keys in the store (13-digit Date.now(), then the suffix).
KeyLess(a, b) == a[1] < b[1] \/ (a[1] = b[1] /\ a[2] < b[2])

(***************************************************************************)
(* JavaScript values.                                                      *)
(***************************************************************************)
\* obj.k of an object that may lack the property: undefined is "absent".
Has(obj, k) == k \in DOMAIN obj

\* A validation that only tests for a missing source.
FalsySourceMut(obj) == ~Has(obj, "source")

\* !obj.source: undefined or the empty string.
FalsySource(obj) == ~Has(obj, "source") \/ obj.source = <<>>

\* !obj.diagramType: undefined or the empty string.
FalsyType(obj) == ~Has(obj, "diagramType") \/ obj.diagramType = ""

\* { ...base, ...over }
Spread(base, over) ==
    [k \in DOMAIN base \cup DOMAIN over |->
        IF k \in DOMAIN over THEN over[k] ELSE base[k]]

IsSpace(c) == c = " "

\* String.prototype.trim
RECURSIVE TrimLeft(_)
TrimLeft(s) ==
    IF s # <<>> /\ IsSpace(Head(s)) THEN TrimLeft(Tail(s)) ELSE s

RECURSIVE TrimRight(_)
TrimRight(s) ==
    IF s # <<>> /\ IsSpace(s[Len(s)])
    THEN TrimRight(SubSeq(s, 1, Len(s) - 1))
    ELSE s

\* A trim that leaves the trailing whitespace.
TrimMut(s) == TrimLeft(s)

Trim(s) == TrimRight(TrimLeft(s))

Min(a, b) == IF a < b THEN a ELSE b

(***************************************************************************)
(* The store: get, set, del, entries of idb-keyval.                        *)
(***************************************************************************)
Undefined == [undefined |-> TRUE]

\* A get() that answers an absent id with a blank record.
fetchDiagramMut(s, id) ==
    IF id \in DOMAIN s THEN s[id]
    ELSE [id |-> id, name |-> <<>>, source |-> <<>>, diagramType |-> "",
          outputFormat |-> "svg", options |-> "{}", timestamp |-> 0,
          isPinned |-> FALSE]

fetchDiagram(s, id) == IF id \in DOMAIN s THEN s[id] ELSE Undefined

saveDiagramToDb(s, d) ==
    [k \in DOMAIN s \cup {d.id} |-> IF k = d.id THEN d ELSE s[k]]

deleteDiagramFromDb(s, id) == [k \in DOMAIN s \ {id} |-> s[k]]

\* entries(): the records in key order.
RECURSIVE Entries(_)
Entries(s) ==
    IF DOMAIN s = {} THEN <<>>
    ELSE LET k == CHOOSE x \in DOMAIN s : \A y \in DOMAIN s : y = x \/ KeyLess(x, y)
         IN <<s[k]>> \o Entries(deleteDiagramFromDb(s, k))

\* d.isPinned as a condition: a record without the property is not pinned.
IsPinned(d) == Has(d, "isPinned") /\ d.isPinned

\* A comparator that orders by timestamp alone.
ListBeforeMut(a, b) == b.timestamp - a.timestamp < 0

\* The comparator of fetchAllDiagrams: pinned first, then newest first.
ListBefore(a, b) ==
    IF IsPinned(a) /\ ~IsPinned(b) THEN TRUE
    ELSE IF ~IsPinned(a) /\ IsPinned(b) THEN FALSE
    ELSE b.timestamp - a.timestamp < 0

\* A count phase that evicts the newest record first.
OldestFirstMut(a, b) == b.timestamp - a.timestamp < 0

\* The comparator of the count phase: (a, b) => a.timestamp - b.timestamp
OldestFirst(a, b) == a.timestamp - b.timestamp < 0

\* compare(a, b) < 0 for the two comparators the code sorts with.
Before(order, a, b) ==
    IF order = "list" THEN ListBefore(a, b) ELSE OldestFirst(a, b)

\* Array.prototype.sort, which is stable.
RECURSIVE InsertSorted(_, _, _)
InsertSorted(x, sorted, order) ==
    IF sorted = <<>> THEN <<x>>
    ELSE IF Before(order, x, Head(sorted)) THEN <<x>> \o sorted
    ELSE <<Head(sorted)>> \o InsertSorted(x, Tail(sorted), order)

RECURSIVE StableSort(_, _)
StableSort(s, order) ==
    IF s = <<>> THEN <<>>
    ELSE InsertSorted(s[Len(s)],
                      StableSort(SubSeq(s, 1, Len(s) - 1), order), order)

fetchAllDiagrams(s) == StableSort(Entries(s), "list")

(***************************************************************************)
(* cleanupDiagrams: the retention pass.                                    *)
(***************************************************************************)
\* A pass that forgets the pin filter.
UnpinnedMut(ds) == ds

Unpinned(ds) == SelectSeq(ds, LAMBDA d : ~IsPinned(d))

\* An age test that is off by one.
ExpiredMut(d, t) == t - d.timestamp >= RETENTION_MS

Expired(d, t) == t - d.timestamp > RETENTION_MS

\* for (const diagram of unpinnedDiagrams) { if (age > RETENTION_MS) ... }
\* acc: the store, deletedCount and the ids handed to del() so far.
RECURSIVE AgeLoop(_, _, _)
AgeLoop(ds, t, acc) ==
    IF ds = <<>> THEN acc
    ELSE IF Expired(Head(ds), t)
    THEN AgeLoop(Tail(ds), t,
                 [store        |-> deleteDiagramFromDb(acc.store, Head(ds).id),
                  deletedCount |-> acc.deletedCount + 1,
                  ids          |-> acc.ids \cup {Head(ds).id}])
    ELSE AgeLoop(Tail(ds), t, acc)

\* A count phase that works on the list read before the age phase.
RemainingDiagramsMut(before, afterAge) == fetchAllDiagrams(before)

\* The record set the count phase works on: re-read after the age phase.
RemainingDiagrams(before, afterAge) == fetchAllDiagrams(afterAge)

\* A cap that lets one record too many through.
OverLimitMut(remaining) == Len(remaining) > MAX_DIAGRAMS + 1

OverLimit(remaining) == Len(remaining) > MAX_DIAGRAMS

\* An excess that is short by one.
ExcessCountMut(remaining) == Len(remaining) - MAX_DIAGRAMS - 1

ExcessCount(remaining) == Len(remaining) - MAX_DIAGRAMS

\* for (let i = 0; i < Math.min(excessCount, sortedUnpinned.length); i++)
RECURSIVE CountLoop(_, _, _, _)
CountLoop(sorted, i, n, acc) ==
    IF ~(i < n) THEN acc
    ELSE CountLoop(sorted, i + 1, n,
                   [store        |-> deleteDiagramFromDb(acc.store, sorted[i + 1].id),
                    deletedCount |-> acc.deletedCount + 1,
                    ids          |-> acc.ids \cup {sorted[i + 1].id}])

cleanupDiagrams(s, t) ==
    LET diagrams == fetchAllDiagrams(s)
        unpinnedDiagrams == Unpinned(diagrams)
        age == AgeLoop(unpinnedDiagrams, t,
                       [store |-> s, deletedCount |-> 0, ids |-> {}])
        remainingDiagrams == RemainingDiagrams(s, age.store)
        remainingUnpinned == Unpinned(remainingDiagrams)
        sortedUnpinned == StableSort(remainingUnpinned, "oldest")
        excessCount == ExcessCount(remainingDiagrams)
        cnt == IF OverLimit(remainingDiagrams)
               THEN CountLoop(sortedUnpinned, 0,
                              Min(excessCount, Len(sortedUnpinned)),
                              [store |-> age.store,
                               deletedCount |-> age.deletedCount,
                               ids |-> {}])
               ELSE [store |-> age.store,
                     deletedCount |-> age.deletedCount,
                     ids |-> {}]
    IN [store        |-> cnt.store,
        deletedCount |-> cnt.deletedCount,
        ageDel       |-> age.ids,
        cntDel       |-> cnt.ids]

(***************************************************************************)
(* Inputs.                                                                 *)
(***************************************************************************)
BaseDraft ==
    [name |-> <<"d">>, source |-> <<"A">>, diagramType |-> "plantuml",
     outputFormat |-> "svg", options |-> "{}"]

\* Omit<SavedDiagram, 'id' | 'timestamp'>: isPinned may be given; source and
\* diagramType may be missing or empty at run time.
Drafts ==
    { BaseDraft,
      Spread(BaseDraft, [isPinned |-> TRUE]),
      Spread(BaseDraft, [source |-> <<>>]),
      [k \in DOMAIN BaseDraft \ {"source"} |-> BaseDraft[k]],
      [k \in DOMAIN BaseDraft \ {"diagramType"} |-> BaseDraft[k]] }

NewNames == { <<>>, <<" ">>, <<" ", "n">>, <<"n", " ">> }

NoId == <<-1, -1>>

\* The ids an operation is called with: every id in the store, and one id
\* that is not in it (get() tells absent ids apart in no way).
AbsentIds(s) ==
    IF Ids \ DOMAIN s = {} THEN {}
    ELSE {CHOOSE x \in Ids \ DOMAIN s :
              \A y \in Ids \ DOMAIN s : y = x \/ KeyLess(x, y)}

Targets(s) == DOMAIN s \cup AbsentIds(s)

EmptyStore == << >>

\* What the caller of the last operation observed (the error thrown, the
\* value returned, the toast shown) and how many records its retention pass
\* deleted in the age phase and in the count phase.
Outcome(op, error, retId, retPin, toast) ==
    [op |-> op, error |-> error, retId |-> retId, retPin |-> retPin,
     toast |-> toast, deletedCount |-> 0, ageDeleted |-> 0, countDeleted |-> 0]

WithPass(o, c) ==
    [o EXCEPT !.deletedCount = c.deletedCount,
              !.ageDeleted = Cardinality(c.ageDel),
              !.countDeleted = Cardinality(c.cntDel)]

Init ==
    /\ store = EmptyStore
    /\ now = 0
    /\ last = Outcome("init", "none", NoId, "none", "none")
    /\ NoHook
    /\ NoOther

(***************************************************************************)
(* The operations of useDiagramStorage.                                    *)
(***************************************************************************)
\* const savedDiagram = { id, timestamp, isPinned: false, ...diagram }
NewDiagram(draft, t, r) ==
    Spread([id |-> generateDiagramId(t, r), timestamp |-> t, isPinned |-> FALSE],
           draft)

\* A save that does not run the retention pass.
SaveDiagramNoCleanup(draft, r) ==
    /\ Cardinality(DOMAIN store) < MaxRecords
    /\ IF FalsySource(draft) \/ FalsyType(draft)
       THEN /\ UNCHANGED store
            /\ last' = Outcome("saveDiagram",
                               "Invalid diagram: missing required fields",
                               NoId, "none", "Failed to save diagram")
       ELSE /\ store' = saveDiagramToDb(store, NewDiagram(draft, now, r))
            /\ last' = Outcome("saveDiagram", "none",
                               NewDiagram(draft, now, r).id, "none", "none")
    /\ UNCHANGED <<now, hookVars, otherVars>>

SaveDiagram(draft, r) ==
    /\ Cardinality(DOMAIN store) < MaxRecords
    /\ IF FalsySource(draft) \/ FalsyType(draft)
       THEN /\ UNCHANGED store
            /\ last' = Outcome("saveDiagram",
                               "Invalid diagram: missing required fields",
                               NoId, "none", "Failed to save diagram")
       ELSE LET savedDiagram == NewDiagram(draft, now, r)
                written == saveDiagramToDb(store, savedDiagram)
                c == cleanupDiagrams(written, now)
            IN /\ store' = c.store
               /\ last' = WithPass(Outcome("saveDiagram", "none",
                                           savedDiagram.id, "none", "none"), c)
    /\ UNCHANGED <<now, hookVars, otherVars>>

DeleteDiagram(id) ==
    /\ store' = deleteDiagramFromDb(store, id)
    /\ last' = Outcome("deleteDiagram", "none", NoId, "none", "none")
    /\ UNCHANGED <<now, hookVars, otherVars>>

\* A toggle that can only pin.
togglePinInDbMut(s, id) ==
    [store |-> saveDiagramToDb(s, Spread(fetchDiagram(s, id), [isPinned |-> TRUE])),
     newPinStatus |-> TRUE]

\* togglePinInDb on an id that get() finds: the store it leaves and the
\* value it returns.
togglePinInDb(s, id) ==
    LET diagram == fetchDiagram(s, id)
        newPinStatus == ~IsPinned(diagram)
    IN [store |-> saveDiagramToDb(s, Spread(diagram, [isPinned |-> newPinStatus])),
        newPinStatus |-> newPinStatus]

\* A togglePin that runs the retention pass after the write.
TogglePinAndCleanup(id) ==
    /\ IF fetchDiagram(store, id) = Undefined
       THEN /\ UNCHANGED store
            /\ last' = Outcome("togglePin", "Diagram not found",
                               NoId, "none", "Failed to toggle pin status")
       ELSE LET newStatus == togglePinInDb(store, id).newPinStatus
            IN /\ store' = cleanupDiagrams(togglePinInDb(store, id).store, now).store
               /\ last' = Outcome("togglePin", "none", NoId,
                                  IF newStatus THEN "true" ELSE "false",
                                  IF newStatus THEN "Diagram pinned"
                                               ELSE "Diagram unpinned")
    /\ UNCHANGED <<now, hookVars, otherVars>>

TogglePin(id) ==
    /\ IF fetchDiagram(store, id) = Undefined
       THEN /\ UNCHANGED store
            /\ last' = Outcome("togglePin", "Diagram not found",
                               NoId, "none", "Failed to toggle pin status")
       ELSE LET newStatus == togglePinInDb(store, id).newPinStatus
            IN /\ store' = togglePinInDb(store, id).store
               /\ last' = Outcome("togglePin", "none", NoId,
                                  IF newStatus THEN "true" ELSE "false",
                                  IF newStatus THEN "Diagram pinned"
                                               ELSE "Diagram unpinned")
    /\ UNCHANGED <<now, hookVars, otherVars>>

RenameDiagram(id, newName) ==
    /\ IF Trim(newName) = <<>>
       THEN /\ UNCHANGED store
            /\ last' = Outcome("renameDiagram", "Name cannot be empty",
                               NoId, "none", "Failed to rename diagram")
       ELSE LET diagram == fetchDiagram(store, id)
            IN IF diagram = Undefined
               THEN /\ UNCHANGED store
                    /\ last' = Outcome("renameDiagram", "Diagram not found",
                                       NoId, "none", "Failed to rename diagram")
               ELSE /\ store' = saveDiagramToDb(store,
                                    Spread(diagram, [name |-> Trim(newName)]))
                    /\ last' = Outcome("renameDiagram", "none", NoId,
                                       "none", "Diagram renamed")
    /\ UNCHANGED <<now, hookVars, otherVars>>

CleanupOldDiagrams ==
    /\ LET c == cleanupDiagrams(store, now)
       IN /\ store' = c.store
          /\ last' = WithPass(Outcome("cleanupOldDiagrams", "none", NoId,
                                      "none",
                                      IF c.deletedCount > 0
                                      THEN "Cleaned up old diagram(s)"
                                      ELSE "No diagrams to clean up"), c)
    /\ UNCHANGED <<now, hookVars, otherVars>>

\* Time passes between two operations.
Tick ==
    /\ now < MaxTime
    /\ now' = now + 1
    /\ last' = Outcome("tick", "none", NoId, "none", "none")
    /\ UNCHANGED <<store, hookVars, otherVars>>

Next ==
    \/ \E draft \in Drafts, r \in Rand : SaveDiagram(draft, r)
    \/ \E id \in Targets(store) : DeleteDiagram(id)
    \/ \E id \in Targets(store) : TogglePin(id)
    \/ \E id \in Targets(store), newName \in NewNames : RenameDiagram(id, newName)
    \/ CleanupOldDiagrams
    \/ Tick

Spec == Init /\ [][Next]_allVars

(***************************************************************************)
(* The read operations of useDiagramStorage: loadDiagram, getAllDiagrams   *)
(* and getLastDiagram.  Each awaits one store operation (get or entries)   *)
(* inside a try block; rejected tells whether that operation rejected.     *)
(* SpecRead starts them on any store of at most MaxRecords + 1 records,    *)
(* pinned, unpinned or written without the isPinned property.              *)
(***************************************************************************)
PinStates == {"pinned", "unpinned", "absent"}

StoredDiagram(id, pin) ==
    IF pin = "absent"
    THEN Spread([id |-> id, timestamp |-> id[1]], BaseDraft)
    ELSE Spread([id |-> id, timestamp |-> id[1], isPinned |-> pin = "pinned"],
                BaseDraft)

ReadStores ==
    UNION { { [id \in S |-> StoredDiagram(id, pins[id])] : pins \in [S -> PinStates] } :
            S \in {S \in SUBSET Ids : Cardinality(S) <= MaxRecords + 1} }

ReadOutcome(op, rejected, error, toast, ret) ==
    [op |-> op, rejected |-> rejected, error |-> error, toast |-> toast,
     ret |-> ret]

\* A loadDiagram that rethrows what get() threw, as the write paths do.
LoadDiagramRethrow(id, rejected) ==
    /\ last' = IF rejected
               THEN ReadOutcome("loadDiagram", TRUE, "get failed",
                                "Failed to load diagram", Undefined)
               ELSE ReadOutcome("loadDiagram", FALSE, "none", "none",
                                fetchDiagram(store, id))
    /\ UNCHANGED <<store, now, hookVars, otherVars>>

LoadDiagram(id, rejected) ==
    /\ last' = IF rejected
               THEN ReadOutcome("loadDiagram", TRUE, "none",
                                "Failed to load diagram", Undefined)
               ELSE ReadOutcome("loadDiagram", FALSE, "none", "none",
                                fetchDiagram(store, id))
    /\ UNCHANGED <<store, now, hookVars, otherVars>>

GetAllDiagrams(rejected) ==
    /\ last' = IF rejected
               THEN ReadOutcome("getAllDiagrams", TRUE, "none",
                                "Failed to load diagrams", <<>>)
               ELSE ReadOutcome("getAllDiagrams", FALSE, "none", "none",
                                fetchAllDiagrams(store))
    /\ UNCHANGED <<store, now, hookVars, otherVars>>

\* diagrams[0] of an array that may be empty
First(diagrams) == IF diagrams = <<>> THEN Undefined ELSE diagrams[1]

\* A getLastDiagram that returns the record saved last, pinned or not.
GetLastDiagramNewest(rejected) ==
    /\ last' = IF rejected
               THEN ReadOutcome("getLastDiagram", TRUE, "none", "none", Undefined)
               ELSE ReadOutcome("getLastDiagram", FALSE, "none", "none",
                                IF DOMAIN store = {} THEN Undefined
                                ELSE store[CHOOSE x \in DOMAIN store :
                                               \A y \in DOMAIN store :
                                                   store[y].timestamp
                                                       <= store[x].timestamp])
    /\ UNCHANGED <<store, now, hookVars, otherVars>>

GetLastDiagram(rejected) ==
    /\ last' = IF rejected
               THEN ReadOutcome("getLastDiagram", TRUE, "none", "none", Undefined)
               ELSE ReadOutcome("getLastDiagram", FALSE, "none", "none",
                                First(fetchAllDiagrams(store)))
    /\ UNCHANGED <<store, now, hookVars, otherVars>>

InitRead ==
    /\ store \in ReadStores
    /\ now = MaxTime
    /\ last = ReadOutcome("init", FALSE, "none", "none", Undefined)
    /\ NoHook
    /\ NoOther

NextRead ==
    \/ \E id \in Targets(store), rejected \in BOOLEAN : LoadDiagram(id, rejected)
    \/ \E rejected \in BOOLEAN : GetAllDiagrams(rejected)
    \/ \E rejected \in BOOLEAN : GetLastDiagram(rejected)

SpecRead == InitRead /\ [][NextRead]_allVars

(***************************************************************************)
(* useDebounce (src/src/hooks/useDebounce.ts).  The hook is rendered with  *)
(* a value and a fixed delay; its effect, which depends on [value, delay], *)
(* sets a timeout that stores the value in debouncedValue, and the         *)
(* effect's cleanup clears that timeout.  React runs the cleanup of the    *)
(* previous effect and then the new effect when the hook is rendered with  *)
(* another value, and the cleanup alone when the component unmounts.       *)
(* A timeout runs when it is due: the clock does not pass a pending        *)
(* timeout's time.                                                         *)
(***************************************************************************)
Delay == 2

MaxChanges == 3

\* Long enough for MaxChanges changes and the delay after the last.
Horizon == MaxChanges * Delay + 1

Values == {"a", "b", "c"}

\* setTimeout(callback, delay) called at time t; v is the value the
\* callback's closure holds.
Timeout(handle, t, delay, v) == [id |-> handle, at |-> t + delay, value |-> v]

clearTimeout(ts, handle) == {tm \in ts : tm.id # handle}

Due(tm) == tm.at <= now

\* useState(value) and the first run of the effect.
DebounceInit ==
    /\ store = EmptyStore
    /\ now = 0
    /\ last = Outcome("init", "none", NoId, "none", "none")
    /\ mounted = TRUE
    /\ value \in Values
    /\ debouncedValue = value
    /\ timer = 1
    /\ timers = {Timeout(1, 0, Delay, value)}
    /\ armed = 1
    /\ saveTimeoutRef = 0
    /\ toastIdRef = 0
    /\ inputs = <<[at |-> 0, value |-> value]>>
    /\ emits = <<>>
    /\ NoOther

\* An effect whose cleanup clears nothing.
RenderNoClear(v) ==
    /\ mounted
    /\ v # value
    /\ armed <= MaxChanges
    /\ value' = v
    /\ timers' = timers \cup {Timeout(armed + 1, now, Delay, v)}
    /\ timer' = armed + 1
    /\ armed' = armed + 1
    /\ inputs' = Append(inputs, [at |-> now, value |-> v])
    /\ UNCHANGED <<vars, otherVars, saveTimeoutRef, toastIdRef, mounted, debouncedValue, emits>>

\* The hook is rendered with another value: cleanup of the previous effect,
\* then the effect.
Render(v) ==
    /\ mounted
    /\ v # value
    /\ armed <= MaxChanges
    /\ value' = v
    /\ timers' = clearTimeout(timers, timer) \cup {Timeout(armed + 1, now, Delay, v)}
    /\ timer' = armed + 1
    /\ armed' = armed + 1
    /\ inputs' = Append(inputs, [at |-> now, value |-> v])
    /\ UNCHANGED <<vars, otherVars, saveTimeoutRef, toastIdRef, mounted, debouncedValue, emits>>

\* A timeout callback runs: setDebouncedValue(value), which React ignores
\* once the component is unmounted.
RunTimeout(tm) ==
    /\ Due(tm)
    /\ timers' = timers \ {tm}
    /\ debouncedValue' = IF mounted THEN tm.value ELSE debouncedValue
    /\ emits' = Append(emits, [at |-> now, value |-> tm.value,
                               previous |-> debouncedValue])
    /\ UNCHANGED <<vars, otherVars, saveTimeoutRef, toastIdRef, mounted, value, timer, armed, inputs>>

\* An unmount that leaves the timeout set.
UnmountLeak ==
    /\ mounted
    /\ mounted' = FALSE
    /\ UNCHANGED <<vars, otherVars, value, debouncedValue, timer, timers, armed,
                   saveTimeoutRef, toastIdRef, inputs, emits>>

\* The component unmounts: the cleanup of the last effect.
Unmount ==
    /\ mounted
    /\ mounted' = FALSE
    /\ timers' = clearTimeout(timers, timer)
    /\ UNCHANGED <<vars, otherVars, value, debouncedValue, timer, armed, saveTimeoutRef,
                   toastIdRef, inputs, emits>>

\* A millisecond passes; no timeout is overdue.
Advance ==
    /\ now < Horizon
    /\ \A tm \in timers : ~Due(tm)
    /\ now' = now + 1
    /\ UNCHANGED <<store, last, hookVars, otherVars>>

NextDebounce ==
    \/ \E v \in Values : Render(v)
    \/ \E tm \in timers : RunTimeout(tm)
    \/ Unmount
    \/ Advance

SpecDebounce == DebounceInit /\ [][NextDebounce]_allVars

(***************************************************************************)
(* useAutoSave (src/unnamed/part_001).  The hook is rendered with the      *)
(* tuple (source, diagramType, outputFormat, options); its effect depends  *)
(* on the tuple, by identity, and on saveDiagram, which is stable.  value  *)
(* is the tuple, timers holds the timeout saveTimeoutRef names, and emits  *)
(* lists the saveDiagram calls.  The timeout callback is taken as one      *)
(* step: the call of saveDiagram, its write and retention pass, and the    *)
(* toast.                                                                  *)
(***************************************************************************)
AUTO_SAVE_DELAY == 2

\* Long enough for MaxChanges changes, each less than AUTO_SAVE_DELAY after
\* the one before, and for the delay after the last to pass.
AutoSaveHorizon == MaxChanges * AUTO_SAVE_DELAY - 1

Tuple(source, diagramType, outputFormat, options) ==
    [source |-> source, diagramType |-> diagramType,
     outputFormat |-> outputFormat, options |-> options]

\* useDiagramEditor starts with an empty source, 'plantuml', 'svg' and {}.
InitialTuple == Tuple(<<>>, "plantuml", "svg", "{}")

\* The tuples the hook is rendered with: the initial one, one whose source
\* is only whitespace, and two with a source to save that differ in every
\* field.
Tuples ==
    { InitialTuple,
      Tuple(<<" ">>, "plantuml", "svg", "{}"),
      Tuple(<<"A">>, "plantuml", "svg", "{}"),
      Tuple(<<"B">>, "mermaid", "png", "{theme}") }

\* A test for the empty source that does not trim.
BlankSourceMut(tuple) == tuple.source = <<>>

\* !source.trim()
BlankSource(tuple) == Trim(tuple.source) = <<>>

\* The argument of saveDiagram in the timeout callback.
\* A draft whose name leaves the diagram type out.
AutoSaveDraftMut(tuple) ==
    [name |-> <<"Auto-saved ">>, source |-> tuple.source,
     diagramType |-> tuple.diagramType, outputFormat |-> tuple.outputFormat,
     options |-> tuple.options]

AutoSaveDraft(tuple) ==
    [name |-> <<"Auto-saved ", tuple.diagramType>>, source |-> tuple.source,
     diagramType |-> tuple.diagramType, outputFormat |-> tuple.outputFormat,
     options |-> tuple.options]

\* The first render and the first run of the effect.
AutoSaveInit ==
    /\ store = EmptyStore
    /\ now = 0
    /\ last = Outcome("init", "none", NoId, "none", "none")
    /\ mounted = TRUE
    /\ value = InitialTuple
    /\ debouncedValue = "none"
    /\ timer = 0
    /\ timers = {}
    /\ armed = 0
    /\ saveTimeoutRef = 0
    /\ toastIdRef = 0
    /\ inputs = <<[at |-> 0, value |-> InitialTuple]>>
    /\ emits = <<>>
    /\ NoOther

\* The timeouts left by the cleanup of the previous effect (which exists
\* when that effect got past the empty-source return) and by the first
\* lines of the effect: both clear saveTimeoutRef.current when it is set.
AfterClear(ts, ref) == IF ref # 0 THEN clearTimeout(ts, ref) ELSE ts

\* An effect that sets its timeout without clearing the previous one.
AutoSaveRenderNoClear(tuple) ==
    /\ mounted
    /\ tuple # value
    /\ Len(inputs) <= MaxChanges
    /\ value' = tuple
    /\ inputs' = Append(inputs, [at |-> now, value |-> tuple])
    /\ toastIdRef' = 0
    /\ IF BlankSource(tuple)
       THEN /\ timers' = timers
            /\ UNCHANGED <<saveTimeoutRef, armed>>
       ELSE /\ timers' = timers
                            \cup {Timeout(armed + 1, now, AUTO_SAVE_DELAY, tuple)}
            /\ saveTimeoutRef' = armed + 1
            /\ armed' = armed + 1
    /\ UNCHANGED <<vars, otherVars, mounted, debouncedValue, timer, emits>>

\* The hook is rendered with another tuple: cleanup of the previous effect,
\* then the effect.
AutoSaveRender(tuple) ==
    /\ mounted
    /\ tuple # value
    /\ Len(inputs) <= MaxChanges
    /\ value' = tuple
    /\ inputs' = Append(inputs, [at |-> now, value |-> tuple])
    /\ toastIdRef' = 0
    /\ IF BlankSource(tuple)
       THEN /\ timers' = AfterClear(timers, saveTimeoutRef)
            /\ UNCHANGED <<saveTimeoutRef, armed>>
       ELSE /\ timers' = AfterClear(timers, saveTimeoutRef)
                            \cup {Timeout(armed + 1, now, AUTO_SAVE_DELAY, tuple)}
            /\ saveTimeoutRef' = armed + 1
            /\ armed' = armed + 1
    /\ UNCHANGED <<vars, otherVars, mounted, debouncedValue, timer, emits>>

\* The timeout callback: saveDiagram({name, source, ...}) and, when it
\* returns, the 'Auto-saved' toast, whose id is kept in toastIdRef.
AutoSaveRun(tm, r) ==
    /\ Due(tm)
    /\ timers' = timers \ {tm}
    /\ emits' = Append(emits, [at |-> now, value |-> tm.value,
                               draft |-> AutoSaveDraft(tm.value)])
    /\ LET draft == AutoSaveDraft(tm.value)
       IN IF FalsySource(draft) \/ FalsyType(draft)
          THEN /\ UNCHANGED <<store, toastIdRef>>
               /\ last' = Outcome("saveDiagram",
                                  "Invalid diagram: missing required fields",
                                  NoId, "none", "Failed to save diagram")
          ELSE LET savedDiagram == NewDiagram(draft, now, r)
                   written == saveDiagramToDb(store, savedDiagram)
                   c == cleanupDiagrams(written, now)
               IN /\ store' = c.store
                  /\ last' = WithPass(Outcome("saveDiagram", "none",
                                              savedDiagram.id, "none",
                                              "Auto-saved"), c)
                  /\ toastIdRef' = tm.id
    /\ UNCHANGED <<now, otherVars, mounted, value, debouncedValue, timer, armed,
                   saveTimeoutRef, inputs>>

\* An unmount that leaves the timeout set.
AutoSaveUnmountLeak ==
    /\ mounted
    /\ mounted' = FALSE
    /\ UNCHANGED <<vars, otherVars, value, debouncedValue, timer, timers, armed,
                   saveTimeoutRef, toastIdRef, inputs, emits>>

\* The component unmounts: the cleanup the last effect returned, if it
\* returned one.
AutoSaveUnmount ==
    /\ mounted
    /\ mounted' = FALSE
    /\ timers' = IF BlankSource(value) THEN timers
                 ELSE AfterClear(timers, saveTimeoutRef)
    /\ UNCHANGED <<vars, otherVars, value, debouncedValue, timer, armed, saveTimeoutRef,
                   toastIdRef, inputs, emits>>

\* A millisecond passes; no timeout is overdue.
AutoSaveAdvance ==
    /\ now < AutoSaveHorizon
    /\ \A tm \in timers : ~Due(tm)
    /\ now' = now + 1
    /\ UNCHANGED <<store, last, hookVars, otherVars>>

NextAutoSave ==
    \/ \E tuple \in Tuples : AutoSaveRender(tuple)
    \/ \E tm \in timers, r \in Rand : AutoSaveRun(tm, r)
    \/ AutoSaveUnmount
    \/ AutoSaveAdvance

SpecAutoSave == AutoSaveInit /\ [][NextAutoSave]_allVars

\* The hook under the assumption that time passes and that a timeout that
\* is due runs its callback, with the tuples a liveness check needs: a
\* blank one and two of different diagram types.
LiveTuples == { tuple \in Tuples : tuple.source # <<" ">> }

NextAutoSaveLive ==
    \/ \E tuple \in LiveTuples : AutoSaveRender(tuple)
    \/ \E tm \in timers, r \in Rand : AutoSaveRun(tm, r)
    \/ AutoSaveUnmount
    \/ AutoSaveAdvance

\* A timeout that is due leaves the set of pending timeouts: its callback
\* runs (AutoSaveRun), unless a clearTimeout removes it first.
TimeoutFires == \E tm \in timers : Due(tm) /\ timers' = timers \ {tm}

SpecAutoSaveLive ==
    /\ AutoSaveInit
    /\ [][NextAutoSaveLive]_allVars
    /\ WF_allVars(AutoSaveAdvance)
    /\ WF_timers(TimeoutFires)

(***************************************************************************)
(* The mutating operations when the toast library throws.  toasts tells    *)
(* which calls throw: none ("ok"), toast.success and the plain toast       *)
(* ("success"), or every call ("all").  A toast.success that throws inside *)
(* the try block is caught by the catch block of the operation, which      *)
(* calls toast.error and rethrows (cleanupOldDiagrams returns 0); a        *)
(* toast.error that throws inside the catch block replaces the error.      *)
(***************************************************************************)
Toasts == {"ok", "success", "all"}

\* What the caller observed, with the argument of the call and whether a
\* toast call threw.
ToastOutcome(op, arg, error, retId, retPin, toast, threw) ==
    Spread(Outcome(op, error, retId, retPin, toast),
           [arg |-> arg, threw |-> threw])

\* catch (error) { toast.error(text); throw error }
Caught(op, arg, error, text, toasts, threw) ==
    IF toasts = "all"
    THEN ToastOutcome(op, arg, "toast failed", NoId, "none", "none", TRUE)
    ELSE ToastOutcome(op, arg, error, NoId, "none", text, threw)

saveDiagramToast(s, t, arg, toasts) ==
    LET draft == arg[1]
    IN IF FalsySource(draft) \/ FalsyType(draft)
       THEN [store |-> s,
             last |-> Caught("saveDiagram", arg,
                             "Invalid diagram: missing required fields",
                             "Failed to save diagram", toasts, FALSE)]
       ELSE LET savedDiagram == NewDiagram(draft, t, arg[2])
                c == cleanupDiagrams(saveDiagramToDb(s, savedDiagram), t)
            IN [store |-> c.store,
                last |-> WithPass(ToastOutcome("saveDiagram", arg, "none",
                                               savedDiagram.id, "none", "none",
                                               FALSE), c)]

togglePinToast(s, t, id, toasts) ==
    IF fetchDiagram(s, id) = Undefined
    THEN [store |-> s,
          last |-> Caught("togglePin", id, "Diagram not found",
                          "Failed to toggle pin status", toasts, FALSE)]
    ELSE LET r == togglePinInDb(s, id)
         IN [store |-> r.store,
             last |-> IF toasts = "ok"
                      THEN ToastOutcome("togglePin", id, "none", NoId,
                                        IF r.newPinStatus THEN "true" ELSE "false",
                                        IF r.newPinStatus THEN "Diagram pinned"
                                                          ELSE "Diagram unpinned",
                                        FALSE)
                      ELSE Caught("togglePin", id, "toast failed",
                                  "Failed to toggle pin status", toasts, TRUE)]

renameDiagramToast(s, t, arg, toasts) ==
    LET id == arg[1]
        newName == arg[2]
        diagram == fetchDiagram(s, id)
    IN IF Trim(newName) = <<>>
       THEN [store |-> s,
             last |-> Caught("renameDiagram", arg, "Name cannot be empty",
                             "Failed to rename diagram", toasts, FALSE)]
       ELSE IF diagram = Undefined
       THEN [store |-> s,
             last |-> Caught("renameDiagram", arg, "Diagram not found",
                             "Failed to rename diagram", toasts, FALSE)]
       ELSE [store |-> saveDiagramToDb(s, Spread(diagram,
                                                 [name |-> Trim(newName)])),
             last |-> IF toasts = "ok"
                      THEN ToastOutcome("renameDiagram", arg, "none", NoId,
                                        "none", "Diagram renamed", FALSE)
                      ELSE Caught("renameDiagram", arg, "toast failed",
                                  "Failed to rename diagram", toasts, TRUE)]

\* The catch block of cleanupOldDiagrams returns 0 instead of rethrowing.
cleanupOldDiagramsToast(s, t, arg, toasts) ==
    LET c == cleanupDiagrams(s, t)
    IN [store |-> c.store,
        last |-> IF toasts = "ok"
                 THEN WithPass(ToastOutcome("cleanupOldDiagrams", arg, "none",
                                            NoId, "none",
                                            IF c.deletedCount > 0
                                            THEN "Cleaned up old diagram(s)"
                                            ELSE "No diagrams to clean up",
                                            FALSE), c)
                 ELSE IF toasts = "all"
                 THEN ToastOutcome("cleanupOldDiagrams", arg, "toast failed",
                                   NoId, "none", "none", TRUE)
                 ELSE ToastOutcome("cleanupOldDiagrams", arg, "none", NoId,
                                   "none", "Failed to cleanup diagrams", TRUE)]

\* The store an operation leaves and what its caller observes.
ToastResult(op, s, t, arg, toasts) ==
    CASE op = "saveDiagram"        -> saveDiagramToast(s, t, arg, toasts)
      [] op = "togglePin"          -> togglePinToast(s, t, arg, toasts)
      [] op = "renameDiagram"      -> renameDiagramToast(s, t, arg, toasts)
      [] op = "cleanupOldDiagrams" -> cleanupOldDiagramsToast(s, t, arg, toasts)

ToastInit ==
    /\ store = EmptyStore
    /\ now = 0
    /\ last = ToastOutcome("init", NoId, "none", NoId, "none", "none", FALSE)
    /\ NoHook
    /\ NoOther

SaveDiagramToast(draft, r, toasts) ==
    /\ Cardinality(DOMAIN store) < MaxRecords
    /\ LET result == ToastResult("saveDiagram", store, now, <<draft, r>>, toasts)
       IN store' = result.store /\ last' = result.last
    /\ UNCHANGED <<now, hookVars, otherVars>>

TogglePinToast(id, toasts) ==
    /\ LET result == ToastResult("togglePin", store, now, id, toasts)
       IN store' = result.store /\ last' = result.last
    /\ UNCHANGED <<now, hookVars, otherVars>>

RenameDiagramToast(id, newName, toasts) ==
    /\ LET result == ToastResult("renameDiagram", store, now, <<id, newName>>,
                                 toasts)
       IN store' = result.store /\ last' = result.last
    /\ UNCHANGED <<now, hookVars, otherVars>>

CleanupOldDiagramsToast(toasts) ==
    /\ LET result == ToastResult("cleanupOldDiagrams", store, now, NoId, toasts)
       IN store' = result.store /\ last' = result.last
    /\ UNCHANGED <<now, hookVars, otherVars>>

TickToast ==
    /\ now < MaxTime
    /\ now' = now + 1
    /\ last' = ToastOutcome("tick", NoId, "none", NoId, "none", "none", FALSE)
    /\ UNCHANGED <<store, hookVars, otherVars>>

NextToast ==
    \/ \E draft \in Drafts, r \in Rand, toasts \in Toasts :
           SaveDiagramToast(draft, r, toasts)
    \/ \E id \in Targets(store), toasts \in Toasts : TogglePinToast(id, toasts)
    \/ \E id \in Targets(store), newName \in NewNames, toasts \in Toasts :
           RenameDiagramToast(id, newName, toasts)
    \/ \E toasts \in Toasts : CleanupOldDiagramsToast(toasts)
    \/ TickToast

SpecToast == ToastInit /\ [][NextToast]_allVars

(***************************************************************************)
(* The page: useDiagramEditor and the session restore (page.tsx).  The     *)
(* editor state is the tuple (source, diagramType, outputFormat, options). *)
(* A commit leaves to run the effects whose dependencies it changed; they  *)
(* run, in the order of their declaration, on the values of that commit,   *)
(* and their state updates make the next commit.  Events (the resolution   *)
(* of getLastDiagram, the user's changes) are handled between commits.     *)
(***************************************************************************)
DiagramTypes == {"plantuml", "mermaid", "d2"}

\* FORMAT_SUPPORT[diagramType] || ['svg']
getSupportedFormats(diagramType) ==
    CASE diagramType = "plantuml" -> <<"png", "svg", "pdf", "txt", "base64">>
      [] diagramType = "mermaid"  -> <<"png", "svg">>
      [] diagramType = "d2"       -> <<"svg">>
      [] OTHER                    -> <<"svg">>

\* DEFAULT_TEMPLATES[diagramType]: a source of its own for every type.
DEFAULT_TEMPLATES(diagramType) == <<"template of ", diagramType>>

Includes(array, x) == \E i \in 1..Len(array) : array[i] = x

\* The effects whose dependencies differ between two commits: the template
\* effect depends on diagramType, the format effect on supportedFormats
\* (memoised on diagramType) and outputFormat, the restore effect on
\* stable callbacks only.
ChangedDeps(old, new) ==
    (IF new.diagramType # old.diagramType THEN {"template", "format"} ELSE {})
    \cup (IF new.outputFormat # old.outputFormat THEN {"format"} ELSE {})

\* The tuples of the stored records: what an autosave of the editor wrote.
RestoreTuples ==
    { Tuple(<<"A">>, "plantuml", "svg", "{}"),
      Tuple(<<"A">>, "plantuml", "pdf", "{theme}"),
      Tuple(<<"B">>, "mermaid", "png", "{theme}") }

StoredTuple(id, tuple, pinned) ==
    Spread([id |-> id, timestamp |-> id[1], isPinned |-> pinned],
           AutoSaveDraft(tuple))

RestoreIds == { id \in Ids : id[2] = 0 }

RestoreStores ==
    UNION { { [id \in S |-> StoredTuple(id, f[id][1], f[id][2])] :
                f \in [S -> RestoreTuples \X BOOLEAN] } :
            S \in {S \in SUBSET RestoreIds : Cardinality(S) <= MaxRecords} }

\* The first render of the page: every effect is left to run.
PageInit ==
    /\ store \in RestoreStores
    /\ now = MaxTime
    /\ last = ReadOutcome("init", FALSE, "none", "none", Undefined)
    /\ NoHook
    /\ NoRace
    /\ editor = InitialTuple
    /\ effects = {"template", "format", "restore"}
    /\ reading = FALSE

\* The effects left by the last commit run, and their updates are
\* committed: setSource(template) and setOptions({}), setOutputFormat of
\* the first supported format when the current one is not supported, and
\* the call of restoreSession, which awaits getLastDiagram.
RunEffects ==
    /\ effects # {}
    /\ LET supportedFormats == getSupportedFormats(editor.diagramType)
           template == IF "template" \in effects
                       THEN [editor EXCEPT
                                !.source = DEFAULT_TEMPLATES(editor.diagramType),
                                !.options = "{}"]
                       ELSE editor
           format == IF /\ "format" \in effects
                        /\ ~Includes(supportedFormats, editor.outputFormat)
                     THEN [template EXCEPT !.outputFormat = supportedFormats[1]]
                     ELSE template
       IN /\ editor' = format
          /\ effects' = ChangedDeps(editor, format)
    /\ reading' = (reading \/ "restore" \in effects)
    /\ UNCHANGED <<vars, hookVars, raceVars>>

\* getLastDiagram resolves and restoreSession goes on: the four setters,
\* committed together.
RestoreSession(rejected) ==
    /\ reading
    /\ effects = {}
    /\ reading' = FALSE
    /\ LET lastDiagram == IF rejected THEN Undefined
                          ELSE First(fetchAllDiagrams(store))
       IN /\ last' = ReadOutcome("getLastDiagram", rejected, "none", "none",
                                 lastDiagram)
          /\ IF lastDiagram = Undefined
             THEN UNCHANGED <<editor, effects>>
             ELSE LET restored == Tuple(lastDiagram.source,
                                        lastDiagram.diagramType,
                                        lastDiagram.outputFormat,
                                        lastDiagram.options)
                  IN /\ editor' = restored
                     /\ effects' = ChangedDeps(editor, restored)
    /\ UNCHANGED <<store, now, hookVars, raceVars>>

\* The user types in the editor: onChange={setSource}.
SetSource(source) ==
    /\ effects = {}
    /\ source # editor.source
    /\ editor' = [editor EXCEPT !.source = source]
    /\ last' = ReadOutcome("setSource", FALSE, "none", "none", Undefined)
    /\ UNCHANGED <<store, now, hookVars, raceVars, effects, reading>>

\* The user selects a diagram type: onChange={setDiagramType}.
SetDiagramType(diagramType) ==
    /\ effects = {}
    /\ diagramType # editor.diagramType
    /\ editor' = [editor EXCEPT !.diagramType = diagramType]
    /\ effects' = ChangedDeps(editor, editor')
    /\ last' = ReadOutcome("setDiagramType", FALSE, "none", "none", Undefined)
    /\ UNCHANGED <<store, now, hookVars, raceVars, reading>>

NextPage ==
    \/ RunEffects
    \/ \E rejected \in BOOLEAN : RestoreSession(rejected)
    \/ \E source \in {<<>>, <<"A">>} : SetSource(source)
    \/ \E diagramType \in DiagramTypes : SetDiagramType(diagramType)

SpecPage == PageInit /\ [][NextPage]_allVars

(***************************************************************************)
(* Storage calls in flight together.  Every get, set, del and entries of   *)
(* the store is one step; cleanupDiagrams, togglePinInDb and               *)
(* renameDiagramInDb await between their store calls, so the steps of      *)
(* calls in flight interleave in any order.  Two calls of cleanupDiagrams, *)
(* one of togglePin and one of renameDiagram run, each once, and           *)
(* deleteDiagram is called again and again.                                *)
(***************************************************************************)
Passes == {"first", "second"}

Writers == {"togglePin", "renameDiagram"}

IdlePass == [pc |-> "idle", todo |-> <<>>, deletedCount |-> 0]

IdleWriter == [pc |-> "idle", diagram |-> Undefined]

IdsOf(ds) == [i \in 1..Len(ds) |-> ds[i].id]

RaceStores ==
    UNION { { [id \in S |-> StoredDiagram(id, pins[id])] :
                pins \in [S -> {"pinned", "unpinned"}] } :
            S \in {S \in SUBSET RestoreIds : Cardinality(S) <= MaxRecords} }

RaceInit ==
    /\ store \in RaceStores
    /\ now = MaxTime
    /\ last = Outcome("init", "none", NoId, "none", "none")
    /\ NoHook
    /\ NoPage
    /\ pass = [p \in Passes |-> IdlePass]
    /\ writer = [w \in Writers |-> IdleWriter]
    /\ removed = {}
    /\ actual = 0

\* del(id) by a pass: the store, and the history of what was removed.
PassDel(id) ==
    /\ store' = deleteDiagramFromDb(store, id)
    /\ removed' = IF id \in DOMAIN store THEN removed \cup {id} ELSE removed
    /\ actual' = IF id \in DOMAIN store THEN actual + 1 ELSE actual

\* cleanupDiagrams starts: entries(), and the expired unpinned records of
\* the list it read are the ones the age loop will delete.
PassStart(p) ==
    /\ pass[p].pc = "idle"
    /\ LET diagrams == fetchAllDiagrams(store)
           unpinnedDiagrams == Unpinned(diagrams)
           expired == SelectSeq(unpinnedDiagrams, LAMBDA d : Expired(d, now))
       IN pass' = [pass EXCEPT ![p] = [pc |-> "age", todo |-> IdsOf(expired),
                                       deletedCount |-> 0]]
    /\ UNCHANGED <<vars, hookVars, pageVars, writer, removed, actual>>

\* One turn of the age loop: await deleteDiagramFromDb; deletedCount++.
PassAgeDelete(p) ==
    /\ pass[p].pc = "age"
    /\ pass[p].todo # <<>>
    /\ PassDel(Head(pass[p].todo))
    /\ pass' = [pass EXCEPT ![p].todo = Tail(@), ![p].deletedCount = @ + 1]
    /\ UNCHANGED <<now, last, hookVars, pageVars, writer>>

\* The age loop is over: entries() again, and the count phase picks the
\* oldest unpinned records of the list it read.
PassRefetch(p) ==
    /\ pass[p].pc = "age"
    /\ pass[p].todo = <<>>
    /\ LET remainingDiagrams == fetchAllDiagrams(store)
           sortedUnpinned == StableSort(Unpinned(remainingDiagrams), "oldest")
           n == Min(ExcessCount(remainingDiagrams), Len(sortedUnpinned))
       IN pass' = [pass EXCEPT
                      ![p].pc = "count",
                      ![p].todo = IF OverLimit(remainingDiagrams)
                                  THEN IdsOf(SubSeq(sortedUnpinned, 1, n))
                                  ELSE <<>>]
    /\ UNCHANGED <<vars, hookVars, pageVars, writer, removed, actual>>

\* One turn of the count loop.
PassCountDelete(p) ==
    /\ pass[p].pc = "count"
    /\ pass[p].todo # <<>>
    /\ PassDel(Head(pass[p].todo))
    /\ pass' = [pass EXCEPT ![p].todo = Tail(@), ![p].deletedCount = @ + 1]
    /\ UNCHANGED <<now, last, hookVars, pageVars, writer>>

\* return deletedCount
PassReturn(p) ==
    /\ pass[p].pc = "count"
    /\ pass[p].todo = <<>>
    /\ pass' = [pass EXCEPT ![p].pc = "done"]
    /\ last' = [Outcome("cleanupDiagrams", "none", NoId, "none", "none")
                    EXCEPT !.deletedCount = pass[p].deletedCount]
    /\ UNCHANGED <<store, now, hookVars, pageVars, writer, removed, actual>>

\* togglePinInDb, renameDiagramInDb: const diagram = await fetchDiagram(id)
WriterGet(w, id) ==
    /\ writer[w].pc = "idle"
    /\ IF fetchDiagram(store, id) = Undefined
       THEN /\ last' = Outcome(w, "Diagram not found", NoId, "none", "none")
            /\ UNCHANGED writer
       ELSE /\ writer' = [writer EXCEPT ![w] = [pc |-> "read",
                                                 diagram |-> fetchDiagram(store, id)]]
            /\ UNCHANGED last
    /\ UNCHANGED <<store, now, hookVars, pageVars, pass, removed, actual>>

\* await saveDiagramToDb({ ...diagram, isPinned: newPinStatus }), or
\* { ...diagram, name: newName }: the record read, written back.
WriterSet(w) ==
    /\ writer[w].pc = "read"
    /\ LET diagram == writer[w].diagram
       IN store' = saveDiagramToDb(store,
                       IF w = "togglePin"
                       THEN Spread(diagram, [isPinned |-> ~IsPinned(diagram)])
                       ELSE Spread(diagram, [name |-> <<"n">>]))
    /\ writer' = [writer EXCEPT ![w] = [pc |-> "done", diagram |-> Undefined]]
    /\ last' = Outcome(w, "none", NoId, "none", "none")
    /\ UNCHANGED <<now, hookVars, pageVars, pass, removed, actual>>

\* deleteDiagram: one del().
DeleteDiagramRace(id) ==
    /\ store' = deleteDiagramFromDb(store, id)
    /\ removed' = IF id \in DOMAIN store THEN removed \cup {id} ELSE removed
    /\ last' = Outcome("deleteDiagram", "none", NoId, "none", "none")
    /\ UNCHANGED <<now, hookVars, pageVars, pass, writer, actual>>

NextRace ==
    \/ \E p \in Passes : PassStart(p)
    \/ \E p \in Passes : PassAgeDelete(p)
    \/ \E p \in Passes : PassRefetch(p)
    \/ \E p \in Passes : PassCountDelete(p)
    \/ \E p \in Passes : PassReturn(p)
    \/ \E w \in Writers, id \in Targets(store) : WriterGet(w, id)
    \/ \E w \in Writers : WriterSet(w)
    \/ \E id \in Targets(store) : DeleteDiagramRace(id)

SpecRace == RaceInit /\ [][NextRace]_allVars

(***************************************************************************)
(* Vocabulary of the properties.                                           *)
(***************************************************************************)
PinnedIds(s) == {id \in DOMAIN s : s[id].isPinned}

UnpinnedIds(s) == {id \in DOMAIN s : ~s[id].isPinned}

Age(s, id, t) == t - s[id].timestamp

\* The unpinned records of s that are older than the retention period at t.
ExpiredIds(s, t) == {id \in UnpinnedIds(s) : Age(s, id, t) > RETENTION_MS}

Max0(n) == IF n > 0 THEN n ELSE 0

\* A draft saveDiagram accepts.
ValidDraft(d) ==
    /\ "source" \in DOMAIN d /\ d.source # <<>>
    /\ "diagramType" \in DOMAIN d /\ d.diagramType # ""

NonBlank(name) == \E i \in 1..Len(name) : name[i] # " "

\* A retention pass started on s at t would have something to delete.
NeedsCleanup(s, t) ==
    \/ ExpiredIds(s, t) # {}
    \/ Cardinality(DOMAIN s) > MAX_DIAGRAMS /\ UnpinnedIds(s) # {}

\* The store a save hands to its retention pass.
Written(draft, r) == saveDiagramToDb(store, NewDiagram(draft, now, r))

\* A step that is a successful saveDiagram(draft), with random suffix r.
SaveStep(draft, r) == ValidDraft(draft) /\ SaveDiagram(draft, r)

\* P(start) holds of every retention pass, start being the store the pass
\* begins with: the pass of cleanupOldDiagrams and the pass of every save.
OnEveryPass(P(_)) ==
    /\ (last'.op = "cleanupOldDiagrams" /\ CleanupOldDiagrams) => P(store)
    /\ (last'.op = "saveDiagram" /\ last'.error = "none") =>
           \A draft \in Drafts, r \in Rand :
               SaveStep(draft, r) => P(Written(draft, r))

\* o is the outcome of a save or a cleanupOldDiagrams that completed.
Passed(o) ==
    /\ o.error = "none"
    /\ o.op \in {"saveDiagram", "cleanupOldDiagrams"}

(***************************************************************************)
(* The retention pass on a store whose del() can reject.  failing is the   *)
(* set of ids del() rejects for; `await deleteDiagramFromDb(id)` stands in *)
(* both loops of cleanupDiagrams without a try block, so a rejection ends  *)
(* the pass there and is thrown to the caller of cleanupDiagrams.          *)
(* acc: the store, deletedCount and whether del() has thrown.              *)
(***************************************************************************)
RECURSIVE AgeLoopDel(_, _, _, _)
AgeLoopDel(ds, t, acc, failing) ==
    IF ds = <<>> THEN acc
    ELSE IF Expired(Head(ds), t)
    THEN IF Head(ds).id \in failing
         THEN [acc EXCEPT !.threw = TRUE]
         ELSE AgeLoopDel(Tail(ds), t,
                         [store        |-> deleteDiagramFromDb(acc.store, Head(ds).id),
                          deletedCount |-> acc.deletedCount + 1,
                          threw        |-> FALSE],
                         failing)
    ELSE AgeLoopDel(Tail(ds), t, acc, failing)

RECURSIVE CountLoopDel(_, _, _, _, _)
CountLoopDel(sorted, i, n, acc, failing) ==
    IF ~(i < n) THEN acc
    ELSE IF sorted[i + 1].id \in failing
    THEN [acc EXCEPT !.threw = TRUE]
    ELSE CountLoopDel(sorted, i + 1, n,
                      [store        |-> deleteDiagramFromDb(acc.store, sorted[i + 1].id),
                       deletedCount |-> acc.deletedCount + 1,
                       threw        |-> FALSE],
                      failing)

cleanupDiagramsDel(s, t, failing) ==
    LET diagrams == fetchAllDiagrams(s)
        unpinnedDiagrams == Unpinned(diagrams)
        age == AgeLoopDel(unpinnedDiagrams, t,
                          [store |-> s, deletedCount |-> 0, threw |-> FALSE],
                          failing)
        remainingDiagrams == RemainingDiagrams(s, age.store)
        remainingUnpinned == Unpinned(remainingDiagrams)
        sortedUnpinned == StableSort(remainingUnpinned, "oldest")
        excessCount == ExcessCount(remainingDiagrams)
    IN IF age.threw THEN age
       ELSE IF OverLimit(remainingDiagrams)
       THEN CountLoopDel(sortedUnpinned, 0,
                         Min(excessCount, Len(sortedUnpinned)), age, failing)
       ELSE age

\* del() works, or rejects for one id of s.
DelFailures(s) == {{}} \cup {{id} : id \in DOMAIN s}

\* saveDiagram: a rejection in the pass reaches the catch block, which
\* shows the error toast and rethrows; the record written stays written.
SaveDiagramDel(draft, r, failing) ==
    /\ Cardinality(DOMAIN store) < MaxRecords
    /\ IF FalsySource(draft) \/ FalsyType(draft)
       THEN /\ UNCHANGED store
            /\ last' = Outcome("saveDiagram",
                               "Invalid diagram: missing required fields",
                               NoId, "none", "Failed to save diagram")
       ELSE LET savedDiagram == NewDiagram(draft, now, r)
                written == saveDiagramToDb(store, savedDiagram)
                c == cleanupDiagramsDel(written, now, failing)
            IN /\ store' = c.store
               /\ last' = IF c.threw
                          THEN Outcome("saveDiagram", "del rejected", NoId,
                                       "none", "Failed to save diagram")
                          ELSE [Outcome("saveDiagram", "none", savedDiagram.id,
                                        "none", "none")
                                    EXCEPT !.deletedCount = c.deletedCount]
    /\ UNCHANGED <<now, hookVars, otherVars>>

\* cleanupOldDiagrams: the catch block shows the error toast and returns 0.
CleanupOldDiagramsDel(failing) ==
    /\ LET c == cleanupDiagramsDel(store, now, failing)
       IN /\ store' = c.store
          /\ last' = IF c.threw
                     THEN Outcome("cleanupOldDiagrams", "none", NoId, "none",
                                  "Failed to cleanup diagrams")
                     ELSE [Outcome("cleanupOldDiagrams", "none", NoId, "none",
                                   IF c.deletedCount > 0
                                   THEN "Cleaned up old diagram(s)"
                                   ELSE "No diagrams to clean up")
                               EXCEPT !.deletedCount = c.deletedCount]
    /\ UNCHANGED <<now, hookVars, otherVars>>

NextDel ==
    \/ \E draft \in Drafts, r \in Rand :
           \E failing \in DelFailures(Written(draft, r)) :
               SaveDiagramDel(draft, r, failing)
    \/ \E failing \in DelFailures(store) : CleanupOldDiagramsDel(failing)
    \/ \E id \in Targets(store) : TogglePin(id)
    \/ Tick

SpecDel == Init /\ [][NextDel]_allVars

(***************************************************************************)
(* C1.  A retention pass that runs alone deletes no pinned record, in the  *)
(* age phase or in the count phase: every record pinned when the pass      *)
(* starts is in the store, unchanged, when it ends.                        *)
(***************************************************************************)
C1_PinnedKept(start) ==
    \A id \in PinnedIds(start) : id \in DOMAIN store' /\ store'[id] = start[id]

C1_PinExemption == [][OnEveryPass(C1_PinnedKept)]_vars

\* A pass evicted for the count while a pinned record past the retention
\* period stayed in the store.
C1_Witness ==
    /\ last.op = "cleanupOldDiagrams"
    /\ last.countDeleted > 0
    /\ \E id \in PinnedIds(store) : Age(store, id, now) > RETENTION_MS

(***************************************************************************)
(* C2.  After every completed saveDiagram, whatever completed togglePin,   *)
(* rename and delete calls came between the saves, the store holds at most *)
(* MAX_DIAGRAMS unpinned records.                                          *)
(***************************************************************************)
C2_CapAfterSave ==
    (last.op = "saveDiagram" /\ last.error = "none")
        => Cardinality(UnpinnedIds(store)) <= MAX_DIAGRAMS

C2_Witness ==
    /\ last.op = "saveDiagram"
    /\ last.error = "none"
    /\ last.countDeleted > 0
    /\ Cardinality(UnpinnedIds(store)) = MAX_DIAGRAMS

(***************************************************************************)
(* C3.  As claimed: with P pinned and U unpinned records left after the    *)
(* age phase, the count phase deletes exactly max(0, U - MAX_DIAGRAMS)     *)
(* records, pinned records not counting against the cap.                   *)
(***************************************************************************)
C3_PinnedNotCounted(start) ==
    LET U == Cardinality(UnpinnedIds(start) \ ExpiredIds(start, now))
    IN last'.countDeleted = Max0(U - MAX_DIAGRAMS)

C3_Original == [][OnEveryPass(C3_PinnedNotCounted)]_vars

(***************************************************************************)
(* C3, amended.  Pinned records count against the cap but are never        *)
(* evicted: the count phase deletes min(max(0, P + U - MAX_DIAGRAMS), U)   *)
(* records, and the store ends with P + U less that many.                  *)
(***************************************************************************)
C3_PinnedCounted(start) ==
    LET U == Cardinality(UnpinnedIds(start) \ ExpiredIds(start, now))
        P == Cardinality(PinnedIds(start))
        n == Min(Max0(P + U - MAX_DIAGRAMS), U)
    IN /\ last'.countDeleted = n
       /\ Cardinality(DOMAIN store') = P + U - n

C3_CountPhase == [][OnEveryPass(C3_PinnedCounted)]_vars

\* A save evicted an unpinned record although no more than MAX_DIAGRAMS
\* unpinned records were stored: a pinned record filled the cap.
C3_Witness ==
    /\ last.op = "saveDiagram"
    /\ last.countDeleted = 1
    /\ PinnedIds(store) # {}
    /\ Cardinality(UnpinnedIds(store)) < MAX_DIAGRAMS
    /\ Cardinality(DOMAIN store) = MAX_DIAGRAMS

(***************************************************************************)
(* C4.  As claimed: saves of unpinned records with strictly increasing     *)
(* timestamps on a store without pins delete nothing while the store holds *)
(* fewer than MAX_DIAGRAMS records, and the save that finds MAX_DIAGRAMS   *)
(* records deletes exactly one, the record with the smallest timestamp,    *)
(* as an eviction of the count phase.  C4_Scenario(anyAge) states it for   *)
(* one save; with anyAge the stored records may be of any age.             *)
(***************************************************************************)
C4_Scenario(anyAge) ==
    (last'.op = "saveDiagram" /\ last'.error = "none") =>
        \A draft \in Drafts, r \in Rand :
            ( /\ SaveStep(draft, r)
              /\ "isPinned" \notin DOMAIN draft
              /\ PinnedIds(store) = {}
              /\ Cardinality(DOMAIN store) <= MAX_DIAGRAMS
              /\ \A id \in DOMAIN store : store[id].timestamp < now
              /\ \A a, b \in DOMAIN store :
                     a # b => store[a].timestamp # store[b].timestamp
              /\ anyAge \/ ExpiredIds(store, now) = {} )
            => IF Cardinality(DOMAIN store) < MAX_DIAGRAMS
               THEN /\ store' = Written(draft, r)
                    /\ last'.deletedCount = 0
               ELSE \E oldest \in DOMAIN store :
                      /\ \A id \in DOMAIN store :
                             store[oldest].timestamp <= store[id].timestamp
                      /\ store' = deleteDiagramFromDb(Written(draft, r), oldest)
                      /\ Cardinality(DOMAIN store') = MAX_DIAGRAMS
                      /\ last'.deletedCount = 1
                      /\ last'.countDeleted = 1

C4_Original == [][C4_Scenario(TRUE)]_vars

(***************************************************************************)
(* C4, amended.  The same, provided no stored record is older than         *)
(* RETENTION_MS when a save runs (the saves all fall within the retention  *)
(* period): otherwise the age phase deletes records before the cap is      *)
(* reached.                                                                *)
(***************************************************************************)
C4_WithinRetention == [][C4_Scenario(FALSE)]_vars

\* The save that found MAX_DIAGRAMS unpinned records evicted one of them.
C4_Witness ==
    /\ last.op = "saveDiagram"
    /\ last.countDeleted = 1
    /\ last.ageDeleted = 0
    /\ PinnedIds(store) = {}
    /\ Cardinality(DOMAIN store) = MAX_DIAGRAMS
    /\ last.retId \in DOMAIN store
    /\ \A id \in DOMAIN store : store[id].timestamp > 0

(***************************************************************************)
(* C5.  The age phase keeps an unpinned record whose age is exactly        *)
(* RETENTION_MS and deletes one whose age is RETENTION_MS + 1; after a     *)
(* pass that runs alone no unpinned record older than RETENTION_MS is left.*)
(***************************************************************************)
C5_Boundary(start) ==
    LET c == cleanupDiagrams(start, now)
    IN /\ \A id \in UnpinnedIds(start) :
            /\ Age(start, id, now) = RETENTION_MS =>
                   /\ id \notin c.ageDel
                   /\ last'.countDeleted = 0 => id \in DOMAIN store'
            /\ Age(start, id, now) = RETENTION_MS + 1 =>
                   /\ id \in c.ageDel
                   /\ id \notin DOMAIN store'
       /\ last'.ageDeleted = Cardinality(ExpiredIds(start, now))
       /\ ExpiredIds(store', now) = {}

C5_AgeBoundary == [][OnEveryPass(C5_Boundary)]_vars

\* A pass deleted an expired record and kept one at the boundary age.
C5_Witness ==
    /\ last.op = "cleanupOldDiagrams"
    /\ last.ageDeleted > 0
    /\ \E id \in UnpinnedIds(store) : Age(store, id, now) = RETENTION_MS

(***************************************************************************)
(* C6.  A pass that runs alone commits the age-phase deletions before it   *)
(* counts: the count phase deletes nothing when the records left by the    *)
(* age phase are within the cap, no record is deleted in both phases, and  *)
(* the value returned is the number of records the pass removed.           *)
(***************************************************************************)
C6_Committed(start) ==
    LET c == cleanupDiagrams(start, now)
        afterAge == DOMAIN start \ ExpiredIds(start, now)
    IN /\ DOMAIN store' \subseteq DOMAIN start
       /\ last'.deletedCount = Cardinality(DOMAIN start \ DOMAIN store')
       /\ last'.deletedCount = last'.ageDeleted + last'.countDeleted
       /\ c.ageDel \cap c.cntDel = {}
       /\ c.cntDel \subseteq afterAge
       /\ Cardinality(afterAge) <= MAX_DIAGRAMS => last'.countDeleted = 0

C6_PhaseOrder == [][OnEveryPass(C6_Committed)]_vars

\* A save found the store over the cap with an expired record in it: the
\* age phase deleted the record and the count phase had nothing left to do.
C6_Witness ==
    /\ last.op = "saveDiagram"
    /\ last.ageDeleted = 1
    /\ last.countDeleted = 0
    /\ last.deletedCount = 1
    /\ Cardinality(DOMAIN store) = MAX_DIAGRAMS

(***************************************************************************)
(* C7.  As claimed: in every reachable state a cleanup pass started there  *)
(* would delete nothing.                                                   *)
(***************************************************************************)
C7_Original == cleanupDiagrams(store, now).deletedCount = 0

(***************************************************************************)
(* C7, amended.  A cleanup pass would delete nothing in the state a        *)
(* completed save or cleanupOldDiagrams leaves, and in the states that     *)
(* follow it for as long as no time passes and no togglePin unpins a       *)
(* record; the passing of time and an unpin may each leave the store with  *)
(* records the next pass deletes.                                          *)
(***************************************************************************)
C7_Clean(s, t) ==
    /\ ~NeedsCleanup(s, t)
    /\ cleanupDiagrams(s, t).deletedCount = 0

C7_CleanUntilTimeOrUnpin ==
    [][ /\ Passed(last') => C7_Clean(store', now')
        /\ ( /\ C7_Clean(store, now)
             /\ now' = now
             /\ ~(last'.op = "togglePin" /\ last'.retPin = "false") )
           => C7_Clean(store', now') ]_vars

\* A save whose pass had to delete left a store no pass would touch.
C7_Witness ==
    /\ last.op = "saveDiagram"
    /\ last.deletedCount > 0
    /\ DOMAIN store # {}
    /\ C7_Clean(store, now)

(***************************************************************************)
(* C8.  saveDiagram with an empty or missing source, or a missing          *)
(* diagramType, throws the invalid-diagram error; it writes and deletes    *)
(* nothing and runs no retention pass, even on a store a pass would prune. *)
(***************************************************************************)
C8_InvalidSaveRejected ==
    [][ last'.op = "saveDiagram" =>
          \A draft \in Drafts, r \in Rand :
              (~ValidDraft(draft) /\ SaveDiagram(draft, r)) =>
                  /\ store' = store
                  /\ last'.error = "Invalid diagram: missing required fields"
                  /\ last'.retId = NoId
                  /\ last'.deletedCount = 0
                  /\ last'.ageDeleted = 0
                  /\ last'.countDeleted = 0 ]_vars

\* The rejected save left an expired record in place.
C8_Witness ==
    /\ last.op = "saveDiagram"
    /\ last.error = "Invalid diagram: missing required fields"
    /\ ExpiredIds(store, now) # {}

(***************************************************************************)
(* C9.  Every successful saveDiagram stores its record under an id no      *)
(* record of the store has: the store written by the save has exactly one  *)
(* record more, and every earlier record is unchanged in it.               *)
(***************************************************************************)
C9_FreshId ==
    [][ (last'.op = "saveDiagram" /\ last'.error = "none") =>
          \A draft \in Drafts, r \in Rand :
              SaveStep(draft, r) =>
                  /\ generateDiagramId(now, r) \notin DOMAIN store
                  /\ Cardinality(DOMAIN Written(draft, r))
                         = Cardinality(DOMAIN store) + 1
                  /\ \A id \in DOMAIN store :
                         Written(draft, r)[id] = store[id] ]_vars

(***************************************************************************)
(* C10.  togglePin, and renameDiagram with a name that is not blank, on    *)
(* an id that is not in the store throw the not-found error and leave the  *)
(* store as it was.                                                        *)
(***************************************************************************)
C10_Rejected ==
    /\ store' = store
    /\ last'.error = "Diagram not found"

C10_NotFound ==
    [][ last'.op \in {"togglePin", "renameDiagram"} =>
          \A id \in Targets(store) \ DOMAIN store :
              /\ TogglePin(id) => C10_Rejected
              /\ \A newName \in NewNames :
                     (NonBlank(newName) /\ RenameDiagram(id, newName))
                         => C10_Rejected ]_vars

\* The call failed on a store that holds other records.
C10_Witness ==
    /\ last.op \in {"togglePin", "renameDiagram"}
    /\ last.error = "Diagram not found"
    /\ DOMAIN store # {}

(***************************************************************************)
(* C11.  togglePin on an id in the store completes, stores the negation of *)
(* the record's isPinned under that id and returns the value it stored;    *)
(* a second togglePin on the same id would give the record the pin state   *)
(* it had before the first.                                                *)
(***************************************************************************)
BoolStr(b) == IF b THEN "true" ELSE "false"

C11_ToggleFlips ==
    [][ last'.op = "togglePin" =>
          \A id \in DOMAIN store :
              TogglePin(id) =>
                  /\ last'.error = "none"
                  /\ id \in DOMAIN store'
                  /\ store'[id].isPinned = ~store[id].isPinned
                  /\ last'.retPin = BoolStr(store'[id].isPinned)
                  /\ togglePinInDb(store', id).store[id].isPinned
                         = store[id].isPinned
                  /\ togglePinInDb(store', id).newPinStatus
                         = store[id].isPinned ]_vars

\* A togglePin has unpinned a record: the record was pinned by an earlier
\* togglePin or saved pinned.
C11_Witness ==
    /\ last.op = "togglePin"
    /\ last.retPin = "false"
    /\ \E id \in DOMAIN store : ~store[id].isPinned

(***************************************************************************)
(* C12.  renameDiagram with a name that trims to empty throws the          *)
(* empty-name error and leaves the store as it was, for an id in the store *)
(* and for an id that is not (the name is tested before get() is called,   *)
(* so the error is never the not-found one); with an id in the store and a *)
(* name that is not blank, the name stored is newName without its leading  *)
(* and trailing whitespace.                                                *)
(***************************************************************************)
AllSpaces(s) == \A i \in 1..Len(s) : s[i] = " "

\* t is s without its leading and trailing whitespace.
Trimmed(s, t) ==
    /\ t # <<>> => t[1] # " " /\ t[Len(t)] # " "
    /\ \E i \in 0..Len(s), j \in 0..Len(s) :
           /\ i + Len(t) + j = Len(s)
           /\ AllSpaces(SubSeq(s, 1, i))
           /\ SubSeq(s, i + 1, i + Len(t)) = t
           /\ AllSpaces(SubSeq(s, Len(s) - j + 1, Len(s)))

C12_RenameTrims ==
    [][ last'.op = "renameDiagram" =>
          \A id \in Targets(store), newName \in NewNames :
              RenameDiagram(id, newName) =>
                  /\ Trimmed(newName, <<>>) =>
                         /\ last'.error = "Name cannot be empty"
                         /\ store' = store
                  /\ (~Trimmed(newName, <<>>) /\ id \in DOMAIN store) =>
                         /\ last'.error = "none"
                         /\ Trimmed(newName, store'[id].name) ]_vars

\* A record was renamed with a name that had whitespace to remove.
C12_Witness ==
    /\ last.op = "renameDiagram"
    /\ last.error = "none"
    /\ \E id \in DOMAIN store : store[id].name = <<"n">>

(***************************************************************************)
(* C13.  togglePin and renameDiagram leave the set of stored ids as it     *)
(* was, leave every record but the target unchanged, and change of the     *)
(* target only isPinned (togglePin) or name (renameDiagram); this also     *)
(* when the store holds unpinned records a retention pass would delete.    *)
(***************************************************************************)
SameBut(field, before, after) ==
    /\ DOMAIN after = DOMAIN before
    /\ \A k \in DOMAIN before \ {field} : after[k] = before[k]

\* The step changed at most the record under id, and of it only field.
C13_Frame(id, field) ==
    /\ \A k \in DOMAIN store \ {id} : store'[k] = store[k]
    /\ id \in DOMAIN store => SameBut(field, store[id], store'[id])

C13_PinRenameFrame ==
    [][ /\ last'.op \in {"togglePin", "renameDiagram"} =>
               DOMAIN store' = DOMAIN store
        /\ last'.op = "togglePin" =>
               \E id \in Targets(store) : C13_Frame(id, "isPinned")
        /\ last'.op = "renameDiagram" =>
               \E id \in Targets(store) : C13_Frame(id, "name") ]_vars

\* A togglePin or renameDiagram completed on a store a retention pass
\* would delete from, and the store still is one.
C13_Witness ==
    /\ last.op \in {"togglePin", "renameDiagram"}
    /\ last.error = "none"
    /\ NeedsCleanup(store, now)
    /\ ExpiredIds(store, now) # {}

(***************************************************************************)
(* C14.  getAllDiagrams, when entries() answers, returns the records of    *)
(* the store, each exactly once, every pinned record before every record   *)
(* that is not pinned, and within the pinned and within the others by      *)
(* descending timestamp; a record without the isPinned property is among   *)
(* the others.                                                             *)
(***************************************************************************)
\* d is pinned: the property is there and is true.
PinnedRecord(d) == "isPinned" \in DOMAIN d /\ d.isPinned = TRUE

ListOrdered(l) ==
    \A i \in 1..Len(l), j \in 1..Len(l) :
        i < j =>
            /\ PinnedRecord(l[i]) \/ ~PinnedRecord(l[j])
            /\ (PinnedRecord(l[i]) = PinnedRecord(l[j]))
                   => l[i].timestamp >= l[j].timestamp

EachOnce(l, s) ==
    /\ Len(l) = Cardinality(DOMAIN s)
    /\ \A id \in DOMAIN s : \E i \in 1..Len(l) : l[i] = s[id]

Records(s) == {s[id] : id \in DOMAIN s}

PinnedRecords(s) == {d \in Records(s) : PinnedRecord(d)}

Newest(d, ds) == d \in ds /\ \A e \in ds : e.timestamp <= d.timestamp

ReadOps == {"loadDiagram", "getAllDiagrams", "getLastDiagram"}

C16_ReadsDegrade ==
    [][ last'.op \in ReadOps =>
          /\ store' = store
          /\ last'.error = "none"
          /\ (last'.rejected /\ last'.op = "getAllDiagrams") => last'.ret = <<>>
          /\ (last'.rejected /\ last'.op # "getAllDiagrams")
                 => last'.ret = Undefined
          /\ (~last'.rejected /\ last'.op = "loadDiagram") =>
                 \A id \in Targets(store) :
                     LoadDiagram(id, FALSE) =>
                         IF id \in DOMAIN store THEN last'.ret = store[id]
                         ELSE last'.ret = Undefined ]_vars

\* A get() rejected under a loadDiagram of a store that holds records.
C16_Witness ==
    /\ last.op = "loadDiagram"
    /\ last.rejected
    /\ DOMAIN store # {}

(***************************************************************************)
(* C17.  A retention pass in which del() rejects for one record still      *)
(* deletes every other expired unpinned record it started with, and its    *)
(* caller is told the number of records deleted: saveDiagram and           *)
(* cleanupOldDiagrams complete without an error and report that number.    *)
(***************************************************************************)
C17_PassOutcome(start, failing) ==
    /\ \A id \in ExpiredIds(start, now) \ failing : id \notin DOMAIN store'
    /\ last'.error = "none"
    /\ last'.toast # "Failed to cleanup diagrams"
    /\ last'.deletedCount = Cardinality(DOMAIN start \ DOMAIN store')

C17_DeleteFailureNotFatal ==
    [][ /\ last'.op = "cleanupOldDiagrams" =>
            \A failing \in DelFailures(store) :
                CleanupOldDiagramsDel(failing) => C17_PassOutcome(store, failing)
        /\ last'.op = "saveDiagram" =>
            \A draft \in Drafts, r \in Rand :
                ValidDraft(draft) =>
                    \A failing \in DelFailures(Written(draft, r)) :
                        SaveDiagramDel(draft, r, failing)
                            => C17_PassOutcome(Written(draft, r), failing) ]_vars

(***************************************************************************)
(* Bursts of useDebounce inputs.  inputs[1] is the value the hook was      *)
(* mounted with; inputs[i..j], 2 <= i <= j, is a burst when every change   *)
(* after the i-th comes less than Delay after the one before, and the      *)
(* burst has settled when more than Delay has passed since its last        *)
(* change without another change, the component being mounted.             *)
(***************************************************************************)
Burst(i, j) ==
    /\ 2 <= i /\ i <= j /\ j <= Len(inputs)
    /\ \A k \in (i + 1)..j : inputs[k].at - inputs[k - 1].at < Delay

Settled(j) ==
    IF j < Len(inputs) THEN inputs[j + 1].at > inputs[j].at + Delay
    ELSE mounted /\ now > inputs[j].at + Delay

\* The timeout callbacks run after the burst began and until it settled.
BurstEmits(i, j) ==
    {k \in 1..Len(emits) :
        emits[k].at > inputs[i].at /\ emits[k].at <= inputs[j].at + Delay}

Bursts == {b \in (1..Len(inputs)) \X (1..Len(inputs)) :
              Burst(b[1], b[2]) /\ Settled(b[2])}

(***************************************************************************)
(* C18, as stated.  A settled burst changes the debounced output exactly   *)
(* once, to the last input of the burst, and no callback of the burst      *)
(* emits another value.                                                    *)
(***************************************************************************)
C18_Original ==
    \A b \in Bursts :
        LET changes == {k \in BurstEmits(b[1], b[2]) :
                           emits[k].value # emits[k].previous}
        IN /\ Cardinality(changes) = 1
           /\ \A k \in BurstEmits(b[1], b[2]) :
                  emits[k].value = inputs[b[2]].value

(***************************************************************************)
(* C18, amended.  A settled burst runs exactly one timeout callback, Delay *)
(* after its last change and with the last input of the burst, so the      *)
(* debounced output changes at most once, and only to that input: it       *)
(* changes exactly once unless the last input is the value the output      *)
(* already has.  No intermediate value is emitted.                         *)
(***************************************************************************)
C18_OneEmission ==
    \A b \in Bursts :
        /\ Cardinality(BurstEmits(b[1], b[2])) = 1
        /\ \A k \in BurstEmits(b[1], b[2]) :
               /\ emits[k].value = inputs[b[2]].value
               /\ emits[k].at = inputs[b[2]].at + Delay
        /\ b[2] = Len(inputs) => debouncedValue = inputs[b[2]].value

\* A burst of three changes has settled and changed the output.
C18_Witness ==
    \E b \in Bursts :
        /\ b[2] >= b[1] + 2
        /\ b[2] = Len(inputs)
        /\ emits # <<>>
        /\ emits[Len(emits)].value # emits[Len(emits)].previous
        /\ inputs[b[1]].value # debouncedValue

(***************************************************************************)
(* C19.  At most one timeout of the hook is pending.  A render with        *)
(* another value leaves only the timeout it sets and leaves the output as  *)
(* it is: the output changes only when a timeout callback runs.  After the *)
(* unmount no timeout is pending and the output does not change.           *)
(***************************************************************************)
C19_OneTimer ==
    /\ Cardinality(timers) <= 1
    /\ [][ /\ Cardinality(timers') <= 1
           /\ value' # value =>
                  /\ timers' = {Timeout(armed', now, Delay, value')}
                  /\ debouncedValue' = debouncedValue
           /\ debouncedValue' # debouncedValue =>
                  /\ Len(emits') = Len(emits) + 1
                  /\ debouncedValue' = value
           /\ ~mounted' => timers' = {}
           /\ ~mounted => (~mounted' /\ debouncedValue' = debouncedValue) ]_allVars

\* The component was unmounted while the timeout of a change was pending:
\* the output still is the value emitted before the change.
C19_Witness ==
    /\ ~mounted
    /\ armed >= 2
    /\ emits # <<>>
    /\ debouncedValue # value
    /\ now < inputs[Len(inputs)].at + Delay

(***************************************************************************)
(* Bursts of useAutoSave inputs: inputs[i..j], 2 <= i <= j, all with a     *)
(* source that is not blank, every change after the i-th less than         *)
(* AUTO_SAVE_DELAY after the one before; the burst has settled when more   *)
(* than AUTO_SAVE_DELAY has passed since its last change without another   *)
(* change, the component being mounted.                                    *)
(***************************************************************************)
SaveBurst(i, j) ==
    /\ 2 <= i /\ i <= j /\ j <= Len(inputs)
    /\ \A k \in i..j : Trim(inputs[k].value.source) # <<>>
    /\ \A k \in (i + 1)..j : inputs[k].at - inputs[k - 1].at < AUTO_SAVE_DELAY

SaveSettled(j) ==
    IF j < Len(inputs) THEN inputs[j + 1].at > inputs[j].at + AUTO_SAVE_DELAY
    ELSE mounted /\ now > inputs[j].at + AUTO_SAVE_DELAY

\* The saveDiagram calls made after the burst began and until it settled.
SaveCalls(i, j) ==
    {k \in 1..Len(emits) :
        /\ emits[k].at > inputs[i].at
        /\ emits[k].at <= inputs[j].at + AUTO_SAVE_DELAY}

SaveBursts == {b \in (1..Len(inputs)) \X (1..Len(inputs)) :
                  SaveBurst(b[1], b[2]) /\ SaveSettled(b[2])}

SameTuple(draft, tuple) ==
    /\ draft.source = tuple.source
    /\ draft.diagramType = tuple.diagramType
    /\ draft.outputFormat = tuple.outputFormat
    /\ draft.options = tuple.options

(***************************************************************************)
(* C20.  A settled burst of tuple changes between sources that are not     *)
(* blank makes exactly one saveDiagram call, AUTO_SAVE_DELAY after its     *)
(* last change, and the draft passed has the source, diagramType,          *)
(* outputFormat and options of the last tuple of the burst: no earlier     *)
(* tuple of the burst is passed to saveDiagram.                            *)
(***************************************************************************)
C20_OneSave ==
    \A b \in SaveBursts :
        /\ Cardinality(SaveCalls(b[1], b[2])) = 1
        /\ \A k \in SaveCalls(b[1], b[2]) :
               /\ SameTuple(emits[k].draft, inputs[b[2]].value)
               /\ emits[k].at = inputs[b[2]].at + AUTO_SAVE_DELAY

\* A burst of three changes, back to its first tuple at the end, has
\* settled, and its record is in the store.
C20_Witness ==
    \E b \in SaveBursts :
        /\ b[2] = b[1] + 2
        /\ inputs[b[1]].value = inputs[b[2]].value
        /\ inputs[b[1] + 1].value.source # inputs[b[2]].value.source
        /\ \E id \in DOMAIN store :
               store[id].source = inputs[b[2]].value.source

(***************************************************************************)
(* C21.  After a change to a tuple whose source trims to empty no timeout  *)
(* is pending: none is set for it and the one of the tuple before is       *)
(* cleared.  So no saveDiagram call has a source that trims to empty, and  *)
(* every saveDiagram call is made with the tuple the hook was last         *)
(* rendered with: a tuple replaced before its timeout ran is not saved.    *)
(***************************************************************************)
TrimsToEmpty(source) == \A i \in 1..Len(source) : source[i] = " "

C21_BlankNotSaved ==
    [][ /\ (value' # value /\ TrimsToEmpty(value'.source)) => timers' = {}
        /\ emits' # emits =>
               /\ ~TrimsToEmpty(emits'[Len(emits')].draft.source)
               /\ emits'[Len(emits')].value = value ]_allVars

\* A tuple with a source to save was replaced, before its timeout was due,
\* by one whose source is whitespace; the time of the timeout has passed
\* and nothing was saved.
C21_Witness ==
    /\ mounted
    /\ Len(inputs) >= 2
    /\ emits = <<>>
    /\ store = EmptyStore
    /\ LET j == Len(inputs)
       IN /\ inputs[j].value.source = <<" ">>
          /\ ~TrimsToEmpty(inputs[j - 1].value.source)
          /\ inputs[j].at < inputs[j - 1].at + AUTO_SAVE_DELAY
          /\ now > inputs[j - 1].at + AUTO_SAVE_DELAY

(***************************************************************************)
(* C22.  At most one autosave timeout is pending, and it is the one set    *)
(* for the tuple the hook was last rendered with; a timeout callback that  *)
(* runs was set at the last change of the tuple, never before it.  After   *)
(* the unmount no timeout is pending and no saveDiagram call is made.      *)
(***************************************************************************)
C22_NoStaleTimer ==
    [][ /\ Cardinality(timers') <= 1
        /\ \A tm \in timers' :
               /\ tm.value = value'
               /\ tm.id = saveTimeoutRef'
               /\ tm.at = inputs'[Len(inputs')].at + AUTO_SAVE_DELAY
        /\ emits' # emits =>
               emits'[Len(emits')].at
                   = inputs[Len(inputs)].at + AUTO_SAVE_DELAY
        /\ ~mounted' => timers' = {}
        /\ ~mounted => (~mounted' /\ emits' = emits) ]_allVars

\* The component was unmounted while a timeout was pending; the time of
\* the timeout has passed and nothing was saved.
C22_Witness ==
    /\ ~mounted
    /\ ~TrimsToEmpty(value.source)
    /\ emits = <<>>
    /\ armed >= 2
    /\ now > inputs[Len(inputs)].at + AUTO_SAVE_DELAY

(***************************************************************************)
(* C23.  A tuple with a source that is not blank, which stays unchanged    *)
(* for more than AUTO_SAVE_DELAY while the hook is mounted, has been       *)
(* passed to saveDiagram AUTO_SAVE_DELAY after its change under the name   *)
(* 'Auto-saved <diagramType>'; and once such a tuple is set, the call is   *)
(* eventually made unless the tuple changes or the hook unmounts first.    *)
(***************************************************************************)
SavedAs(j) ==
    \E k \in 1..Len(emits) :
        /\ emits[k].at = inputs[j].at + AUTO_SAVE_DELAY
        /\ emits[k].draft =
               [name |-> <<"Auto-saved ", inputs[j].value.diagramType>>,
                source |-> inputs[j].value.source,
                diagramType |-> inputs[j].value.diagramType,
                outputFormat |-> inputs[j].value.outputFormat,
                options |-> inputs[j].value.options]

Unchanged(j) ==
    IF j < Len(inputs)
    THEN inputs[j + 1].at > inputs[j].at + AUTO_SAVE_DELAY
    ELSE mounted /\ now > inputs[j].at + AUTO_SAVE_DELAY

SettledSaved ==
    \A j \in 1..Len(inputs) :
        (~TrimsToEmpty(inputs[j].value.source) /\ Unchanged(j)) => SavedAs(j)

Set(j) ==
    /\ mounted
    /\ Len(inputs) = j
    /\ ~TrimsToEmpty(inputs[j].value.source)
    /\ inputs[j].at + AUTO_SAVE_DELAY <= AutoSaveHorizon

C23_EventuallySaved ==
    /\ []SettledSaved
    /\ \A j \in 1..(MaxChanges + 1) :
           Set(j) ~> (\/ Len(inputs) = j /\ SavedAs(j)
                      \/ Len(inputs) > j
                      \/ ~mounted)

\* The second tuple, of another diagram type than the initial one, stayed
\* unchanged and was saved.
C23_Witness ==
    /\ mounted
    /\ Len(inputs) = 2
    /\ inputs[2].value.diagramType = "mermaid"
    /\ now > inputs[2].at + AUTO_SAVE_DELAY
    /\ SavedAs(2)
    /\ \E id \in DOMAIN store : store[id].name = <<"Auto-saved ", "mermaid">>

(***************************************************************************)
(* C24.  Once the session restore and every effect it triggers have run,   *)
(* the source, diagramType, outputFormat and options of the editor are     *)
(* those of the record getLastDiagram returned, whatever its diagramType;  *)
(* when it returned no record, the restore leaves the editor as it was.    *)
(***************************************************************************)
Restored == ~reading /\ effects = {} /\ last.op = "getLastDiagram"

C24_RestoreSetsEditor ==
    /\ [](Restored /\ last.ret # Undefined =>
              editor = Tuple(last.ret.source, last.ret.diagramType,
                             last.ret.outputFormat, last.ret.options))
    /\ [][(reading /\ ~reading' /\ last'.ret = Undefined) =>
              (editor' = editor /\ effects' = effects)]_allVars

(***************************************************************************)
(* C25.  When a toast call of a mutating operation throws, the operation   *)
(* leaves the store it leaves when the toasts work, and its caller         *)
(* observes the same outcome: it fails in the one case exactly when it     *)
(* fails in the other, and returns the same value.                         *)
(***************************************************************************)
SameOutcome(a, b) ==
    /\ (a.error = "none") <=> (b.error = "none")
    /\ a.retId = b.retId
    /\ a.retPin = b.retPin
    /\ a.deletedCount = b.deletedCount

C25_ToastBestEffort ==
    [][ last'.threw =>
           LET ok == ToastResult(last'.op, store, now, last'.arg, "ok")
           IN /\ store' = ok.store
              /\ SameOutcome(last', ok.last) ]_allVars

(***************************************************************************)
(* C26.  The id a saveDiagram returns is the id of a record of the store   *)
(* the save leaves: the retention pass it runs does not delete the record  *)
(* it wrote, whatever the store held, pinned records included.             *)
(***************************************************************************)
C26_WrittenRecordKept ==
    [][ (last'.op = "saveDiagram" /\ last'.error = "none") =>
           last'.retId \in DOMAIN store' ]_allVars

(***************************************************************************)
(* C27.  Whatever togglePin calls run between the steps of a retention     *)
(* pass, the record a del() of the pass removes is not pinned in the store *)
(* at the moment of that del().                                            *)
(***************************************************************************)
PassDeletes(p, id) ==
    /\ pass[p].pc \in {"age", "count"}
    /\ pass[p].todo # <<>>
    /\ id = Head(pass[p].todo)
    /\ pass'[p].deletedCount = pass[p].deletedCount + 1

C27_PassSparesPinned ==
    [][ \A p \in Passes, id \in RestoreIds :
            PassDeletes(p, id) => ~(id \in DOMAIN store /\ IsPinned(store[id]))
      ]_allVars

(***************************************************************************)
(* C28.  A record that a del() removed, of deleteDiagram or of a retention *)
(* pass, is in the store at no later time, whatever steps of togglePin     *)
(* and renameDiagram on its id run before and after the del().             *)
(***************************************************************************)
C28_RemovedStaysRemoved == removed \cap DOMAIN store = {}

(***************************************************************************)
(* C29.  A del() of a pass on an id that is no longer in the store changes *)
(* nothing and raises no error, and when the passes have returned, the     *)
(* sum of the counts they returned is the number of records they removed.  *)
(***************************************************************************)
RECURSIVE SumOfCounts(_)
SumOfCounts(ps) ==
    IF ps = {} THEN 0
    ELSE LET p == CHOOSE q \in ps : TRUE
         IN pass[p].deletedCount + SumOfCounts(ps \ {p})

C29_CountsAddUp ==
    /\ []((\A p \in Passes : pass[p].pc = "done") => SumOfCounts(Passes) = actual)
    /\ [][ \A p \in Passes, id \in RestoreIds :
               (PassDeletes(p, id) /\ id \notin DOMAIN store) =>
                   (store' = store /\ last' = last) ]_allVars

(***************************************************************************)
(* C30.  Two saveDiagram calls of the autosave that follow each other are  *)
(* never made with the same source, diagramType, outputFormat and options: *)
(* a tuple that settles again after the tuple saved last is not saved a    *)
(* second time.                                                            *)
(***************************************************************************)
C30_NoRepeatedSave ==
    \A k \in 1..(Len(emits) - 1) : emits[k + 1].value # emits[k].value

====
